---- MODULE Spec2Model ----
(***************************************************************************)
(* The error-detection-and-auto-repair loop of the sandbox preview:        *)
(*   frontend/src/components/CodePreview.tsx  (ErrorMonitor, CodePreview)   *)
(*   server/services/productionValidatorService.js (POST /fix-error)       *)
(*   server/services/smartSandboxErrorFixerService.js (fixWithReasoning)   *)
(*   server/services/reasoningService.js (reasonAboutErrorFix)             *)
(*                                                                         *)
(* React semantics used throughout: the state updates a handler makes are  *)
(* batched and committed in one render when the handler returns or         *)
(* suspends, and an effect whose dependency changed in that render re-runs *)
(* before the next event is handled.  The sandbox listener is the closure  *)
(* created by the last run of the listener effect: it reads the values of  *)
(* the render it was created in, not the live state.                       *)
(***************************************************************************)
EXTENDS Integers, Sequences, FiniteSets, TLC

\* ------------------------------------------------------------- bounds
MaxSessions == 3      \* repair sessions started in one run
MaxInFlight == 2      \* repair sessions running at the same time
MaxTicks == 2         \* clock steps taken in one run
RepairSessions == 1   \* sessions of the run that follows the server step by step
MaxSkipped == 1       \* faults counted as turned away by the gate
Tick == 2500          \* milliseconds per clock step

\* ---------------------------------------------------- program constants
CooldownMs == 5000        \* setTimeout(..., 5000)
SuccessGraceMs == 2000    \* timeSinceSuccess < 2000
HashPrefixLen == 100      \* errorMessage.substring(0, 100)

\* Date.now() at mount: any value >= SuccessGraceMs behaves alike, since
\* lastSuccessTime starts at 0.
StartTime == SuccessGraceMs
EndTime == StartTime + MaxTicks * Tick

\* ------------------------------------------------------------- texts
\* A text is a sequence of runs [ch, n]: n >= 1 copies of the character ch.
Run(c, k) == [ch |-> c, n |-> k]

\* String.prototype.substring(0, n)
RECURSIVE substring(_, _)
substring(text, n) ==
  IF n <= 0 \/ text = <<>> THEN <<>>
  ELSE IF Head(text).n <= n
       THEN <<Head(text)>> \o substring(Tail(text), n - Head(text).n)
       ELSE <<Run(Head(text).ch, n)>>

\* `${errorType}:${errorMessage.substring(0, 100)}`; the error type is one symbol
ErrorHashOf(errorType, errorMessage) ==
  <<Run(errorType, 1), Run(":", 1)>> \o substring(errorMessage, HashPrefixLen)

EmptyHash == <<>>     \* the empty string ''

\* ------------------------------------------------------ sandbox messages
\* Two show-error messages that agree on their first 100 characters and
\* differ after them, the failed 'done', the successful 'done', and a
\* message that is no error at all.
MsgShort == <<Run("a", HashPrefixLen)>>
MsgLong == <<Run("a", HashPrefixLen), Run("b", 1)>>
BuildFailedText == <<Run("Build completed with compilation errors", 1)>>

Messages ==
  { [type |-> "done", action |-> "", compilatonError |-> FALSE, message |-> <<>>],
    [type |-> "done", action |-> "", compilatonError |-> TRUE, message |-> <<>>],
    [type |-> "action", action |-> "show-error", compilatonError |-> FALSE, message |-> MsgShort],
    [type |-> "action", action |-> "show-error", compilatonError |-> FALSE, message |-> MsgLong],
    [type |-> "state", action |-> "", compilatonError |-> FALSE, message |-> <<>>] }

\* The error type and message the listener derives from a message
\* (errorMessage stays '' for a message that is no error).
DecodeMessage(message) ==
  IF message.type = "action" /\ message.action = "show-error"
  THEN [errorType |-> "Compilation Error",
        errorMessage |-> IF message.message # <<>> THEN message.message
                         ELSE <<Run("Compilation failed", 1)>>]
  ELSE IF message.type = "done" /\ message.compilatonError = TRUE
  THEN [errorType |-> "Compilation Failed", errorMessage |-> BuildFailedText]
  ELSE [errorType |-> "", errorMessage |-> <<>>]

Hashes ==
  { ErrorHashOf(DecodeMessage(m).errorType, DecodeMessage(m).errorMessage) :
      m \in { x \in Messages : DecodeMessage(x).errorMessage # <<>> } }

\* ------------------------------------------------------------- files
\* A path is [lead, name]: `lead` leading '/' characters before `name`.
Path(l, nm) == [lead |-> l, name |-> nm]
WithSlash(p) == Path(p.lead + 1, p.name)        \* `/${path}`
File(p, c) == [path |-> p, content |-> c]

InitialFiles ==
  << File(Path(0, "src/App.tsx"), "v0"), File(Path(1, "src/index.tsx"), "v0") >>

\* fixedFiles of a 'complete' record: path -> content, in key order
Patches ==
  { << File(Path(0, "src/App.tsx"), "v1"), File(Path(1, "src/util.ts"), "v1") >> }

\* The patches of the run that is followed step by step: the one above, an
\* empty content, a key with the '/' its stored path lacks, and a key
\* without the '/' its stored path has
RepairPatches ==
  Patches \cup { << File(Path(0, "src/App.tsx"), "") >>,
                 << File(Path(1, "src/App.tsx"), "v2") >>,
                 << File(Path(0, "src/index.tsx"), "v2") >> }

Undefined == "undefined"
NoResult == <<>>      \* finalResult = null
Truthy(v) == v # Undefined /\ v # ""

\* fixedFiles[path]
Lookup(fixedFiles, p) ==
  IF \E i \in 1..Len(fixedFiles) : fixedFiles[i].path = p
  THEN fixedFiles[CHOOSE i \in 1..Len(fixedFiles) : fixedFiles[i].path = p].content
  ELSE Undefined

\* a || b
OrElse(a, b) == IF Truthy(a) THEN a ELSE b

\* updatedFiles of handleSandboxError: the captured files with the
\* patched contents, then the patch entries no captured file matches
UpdatedFiles(captured, fixedFiles) ==
  LET mapped == [i \in 1..Len(captured) |->
        LET fixedContent == OrElse(Lookup(fixedFiles, captured[i].path),
                                   Lookup(fixedFiles, WithSlash(captured[i].path)))
        IN IF Truthy(fixedContent)
           THEN File(captured[i].path, fixedContent) ELSE captured[i]]
      exists(p) == \E i \in 1..Len(captured) :
                      captured[i].path = p \/ WithSlash(captured[i].path) = p
      added == SelectSeq(fixedFiles, LAMBDA e : ~exists(e.path))
  IN mapped \o added

\* ------------------------------------------------- the server's pipeline
\* The records of the event stream
\* (a files map that may be absent is <<>> when absent, else <<the map>>)
NoFiles == <<>>
Progress(st) == [type |-> "", stage |-> st, success |-> FALSE, fixedFiles |-> NoFiles]
ErrorRecord == [type |-> "error", stage |-> "", success |-> FALSE, fixedFiles |-> NoFiles]
CompleteRecord(p) == [type |-> "complete", stage |-> "", success |-> TRUE, fixedFiles |-> <<p>>]

\* What the run did, in order: the progress events it emitted and the work
\* (oracle calls, codebase scan, verification) it began
Event(stage, percent) == [kind |-> "event", name |-> stage, progress |-> percent]
Work(what) == [kind |-> "work", name |-> what, progress |-> 0]

\* The responses of the first oracle call: a JSON object, text without any
\* JSON, text whose braces do not parse, or a stream that fails
AnalysisResponses == {"json", "no_json", "bad_json", "transport_error"}

\* Whether analyzeCodebase runs through or throws (a file without content)
ScanOutcomes == {"ok", "throws"}

\* A response of the second oracle call: the stream fails, or it delivers
\* a text with (or without) a JSON object, which has (or has not) a files
\* map, whose contents are (or are not) all strings, and with the files of
\* its '=== path ===' blocks.
Response(failed, js, fs, strings, bl) ==
  [transportError |-> failed, json |-> js, files |-> fs, stringContents |-> strings,
   blocks |-> bl]

ImplementationResponses(patches) ==
  { Response(FALSE, "object", <<p>>, TRUE, <<>>) : p \in patches }
  \cup { Response(FALSE, "invalid", NoFiles, TRUE, p) : p \in patches }
  \cup { Response(FALSE, "object", <<CHOOSE p \in patches : TRUE>>, FALSE, <<>>),
         Response(FALSE, "object", NoFiles, TRUE, <<>>),
         Response(FALSE, "none", NoFiles, TRUE, <<>>),
         Response(TRUE, "none", NoFiles, TRUE, <<>>) }

\* ReasoningService.reasonAboutErrorFix: whatever the stream or the parse
\* throws is caught and a fallback analysis carrying the error is returned
reasonAboutErrorFix(response) ==
  [fallback |-> response # "json",
   raised |-> IF response = "transport_error" THEN {"oracle1"}
              ELSE IF response # "json" THEN {"parse1"} ELSE {}]

\* parseFixedFiles: the files map of the JSON object, else the file blocks
\* (none of them: the empty map)
parseFixedFiles(response) ==
  IF response.json = "object" /\ response.files # NoFiles
  THEN response.files[1] ELSE response.blocks

\* verifyFixes calls content.match on every entry: it throws on a content
\* that is no string
VerifyThrows(response) ==
  response.json = "object" /\ response.files # NoFiles /\ ~response.stringContents

FailedResult == [success |-> FALSE, fixedFiles |-> NoFiles, error |-> TRUE]
NoServerResult == [success |-> FALSE, fixedFiles |-> NoFiles, error |-> FALSE]

ServerIdle ==
  [pc |-> "idle", log |-> <<>>, raised |-> {}, fallback |-> FALSE,
   malformed |-> FALSE, result |-> NoServerResult]
\* The run is not followed step by step: its chunks are drawn from NextChunks
ServerOff == [ServerIdle EXCEPT !.pc = "off"]

\* fixWithReasoning up to its first await: STEP 1 until the oracle is called
StartAnalysis(srv) ==
  [srv EXCEPT !.pc = "oracle1",
              !.log = @ \o <<Event("analyzing", 10), Work("oracle1")>>]

\* Failed without the 'error' event
FailedSilently(srv, log, exceptions) ==
  [srv EXCEPT !.pc = "ended", !.raised = @ \cup exceptions, !.result = FailedResult]

\* The catch block of fixWithReasoning
Failed(srv, log, exceptions) ==
  [srv EXCEPT !.pc = "ended", !.log = log \o <<Event("error", 0)>>,
              !.raised = @ \cup exceptions, !.result = FailedResult]

\* AfterOracle1 announcing the codebase scan after having made it
AfterOracle1ScanFirst(srv, response, scan) ==
  LET errorAnalysis == reasonAboutErrorFix(response)
      log == srv.log \o <<Event("reasoning_complete", 30), Work("scan"),
                          Event("codebase_analysis", 40)>>
      seen == [srv EXCEPT !.fallback = errorAnalysis.fallback,
                          !.raised = @ \cup errorAnalysis.raised]
  IN IF scan = "throws"
     THEN [seen EXCEPT !.pc = "ended", !.log = log \o <<Event("error", 0)>>,
                       !.raised = @ \cup {"scan"}, !.result = FailedResult]
     ELSE [seen EXCEPT !.pc = "oracle2",
                       !.log = log \o <<Event("generating_fix", 60), Work("oracle2")>>]

\* fixWithReasoning from the return of the first oracle call to the second
\* call: the rest of STEP 1, STEP 2, STEP 3 until the oracle is called
AfterOracle1(srv, response, scan) ==
  LET errorAnalysis == reasonAboutErrorFix(response)
      log == srv.log \o <<Event("reasoning_complete", 30),
                          Event("codebase_analysis", 40), Work("scan")>>
      seen == [srv EXCEPT !.fallback = errorAnalysis.fallback,
                          !.raised = @ \cup errorAnalysis.raised]
  IN IF scan = "throws"
     THEN Failed(seen, log, {"scan"})
     ELSE [seen EXCEPT !.pc = "oracle2",
                       !.log = log \o <<Event("generating_fix", 60), Work("oracle2")>>]

\* fixWithReasoning from the return of the second oracle call to its end:
\* the rest of STEP 3, STEP 4 and the result
AfterOracle2(srv, response) ==
  IF response.transportError
  THEN Failed(srv, srv.log, {"oracle2"})
  ELSE LET log == srv.log \o <<Event("verifying", 80), Work("verify")>>
           seen == [srv EXCEPT
                      !.raised = @ \cup (IF response.json = "invalid"
                                         THEN {"parse2"} ELSE {}),
                      !.malformed = ~(response.json = "object"
                                      /\ response.files # NoFiles)
                                    /\ response.blocks = <<>>]
       IN IF VerifyThrows(response)
          THEN Failed(seen, log, {"verify"})
          ELSE [seen EXCEPT
                  !.pc = "ended",
                  !.log = log \o <<Event("complete", 100)>>,
                  !.result = [success |-> TRUE,
                              fixedFiles |-> <<parseFixedFiles(response)>>,
                              error |-> FALSE]]

\* The final record of POST /fix-error
FinalRecord(result) ==
  IF result.success THEN CompleteRecord(result.fixedFiles[1]) ELSE ErrorRecord

\* The records written (sendUpdate) while the run went from `before` to
\* `after`.  No await lies between them: they arrive as one chunk.
Written(before, after) ==
  LET new == SubSeq(after.log, Len(before.log) + 1, Len(after.log))
      events == SelectSeq(new, LAMBDA e : e.kind = "event")
  IN [i \in 1..Len(events) |-> Progress(events[i].name)]
     \o (IF after.pc = "ended" THEN <<FinalRecord(after.result)>> ELSE <<>>)

\* The chunks the server may write next on a stream of which `sent` chunks
\* were read
NextChunks(sent) ==
  LET s1 == StartAnalysis(ServerIdle)
      s2 == AfterOracle1(s1, "json", "ok")
  IN IF sent = 0 THEN { Written(ServerIdle, s1) }
     ELSE IF sent = 1
     THEN { Written(s1, AfterOracle1(s1, response, scan)) :
              response \in AnalysisResponses, scan \in ScanOutcomes }
     ELSE IF sent = 2
     THEN { Written(s2, AfterOracle2(s2, response)) :
              response \in ImplementationResponses(Patches) }
     ELSE {}

\* ------------------------------------------------------------ verifyFixes
\* A file content, for verifyFixes, is the sequence of its lexical pieces:
\* the keyword "function", a run of whitespace "ws", an identifier "name",
\* the brackets, "=>", the texts "undefined" and "!== undefined", the
\* comment openers "// TODO" and "// FIXME", and "stmt" for any other code.
At(content, i) == IF i \in 1..Len(content) THEN content[i] ELSE "end"

\* \s* from position i on: the position after the whitespace, if any
SkipWs(content, i) == IF At(content, i) = "ws" THEN i + 1 ELSE i

\* content.match(/function\s+\w+\([^)]*\)\s*\{\s*\}/)
MatchesEmptyFunction(content) ==
  \E i \in 1..Len(content) :
    /\ At(content, i) = "function"
    /\ At(content, i + 1) = "ws"
    /\ At(content, i + 2) = "name"
    /\ At(content, i + 3) = "("
    /\ \E j \in (i + 4)..Len(content) :
         /\ content[j] = ")"
         /\ \A k \in (i + 4)..(j - 1) : content[k] # ")"
         /\ LET open == SkipWs(content, j + 1) IN
            /\ At(content, open) = "{"
            /\ At(content, SkipWs(content, open + 1)) = "}"

\* content.includes(text)
Includes(content, text) ==
  \E i \in 1..Len(content) :
    \/ content[i] = text
    \/ text = "undefined" /\ content[i] = "!== undefined"

\* `${path}: ${text}`
Warning(p, text) == [path |-> p, warning |-> text]

\* The warnings the loop body of verifyFixes pushes for one entry
WarningsOf(entry) ==
  (IF MatchesEmptyFunction(entry.content)
   THEN <<Warning(entry.path, "Contains empty function")>> ELSE <<>>)
  \o (IF Includes(entry.content, "// TODO") \/ Includes(entry.content, "// FIXME")
      THEN <<Warning(entry.path, "Contains TODO/FIXME comments")>> ELSE <<>>)
  \o (IF Includes(entry.content, "undefined")
         /\ ~Includes(entry.content, "!== undefined")
      THEN <<Warning(entry.path, "May have undefined references")>> ELSE <<>>)

RECURSIVE Warnings(_)
Warnings(fixedFiles) ==
  IF fixedFiles = <<>> THEN <<>>
  ELSE WarningsOf(Head(fixedFiles)) \o Warnings(Tail(fixedFiles))

\* verifyFixes(fixedFiles, originalError)
verifyFixes(fixedFiles) ==
  [filesModified |-> Len(fixedFiles),
   checks |->
     [noEmptyFunctions |->
        \A i \in 1..Len(fixedFiles) : ~MatchesEmptyFunction(fixedFiles[i].content),
      noTODOComments |->
        \A i \in 1..Len(fixedFiles) :
          ~(Includes(fixedFiles[i].content, "// TODO")
            \/ Includes(fixedFiles[i].content, "// FIXME")),
      validSyntax |-> TRUE,
      importsResolved |-> TRUE],
   warnings |-> Warnings(fixedFiles)]

\* The contents verifyFixes is called on: named functions with an empty
\* body (with and without parameters and whitespace), a named function with
\* a statement, an arrow function and an anonymous function with an empty
\* body, a named function with a blank before its parameter list, the two
\* comment markers, and 'undefined' unguarded and guarded.
VerifyContents ==
  { <<"function", "ws", "name", "(", ")", "ws", "{", "}">>,
    <<"function", "ws", "name", "(", "name", ")", "{", "ws", "}">>,
    <<"function", "ws", "name", "(", ")", "ws", "{", "stmt", "}">>,
    <<"stmt", "(", ")", "ws", "=>", "ws", "{", "}">>,
    <<"stmt", "function", "(", ")", "ws", "{", "}">>,
    <<"function", "ws", "name", "ws", "(", ")", "ws", "{", "}">>,
    <<"// TODO", "ws", "stmt">>,
    <<"stmt", "ws", "// FIXME">>,
    <<"stmt", "ws", "undefined">>,
    <<"stmt", "ws", "!== undefined">> }

VerifyPaths == { Path(0, "src/App.tsx"), Path(0, "src/util.ts") }

\* The patches verifyFixes is called on: up to two files of different paths
VerifyPatches ==
  { <<>> }
  \cup { <<File(p, c)>> : p \in VerifyPaths, c \in VerifyContents }
  \cup { <<File(pq[1], c), File(pq[2], d)>> :
           pq \in { x \in VerifyPaths \X VerifyPaths : x[1] # x[2] },
           c \in VerifyContents, d \in VerifyContents }

NoVerification ==
  [filesModified |-> 0,
   checks |-> [noEmptyFunctions |-> TRUE, noTODOComments |-> TRUE,
               validSyntax |-> TRUE, importsResolved |-> TRUE],
   warnings |-> <<>>]

VerifierIdle == [pc |-> "idle", fixedFiles |-> <<>>, verification |-> NoVerification]

\* The last toast a run of handleSandboxError showed
ToastInfo == "AI is analyzing and fixing the error..."
ToastNoSettings == "API settings not configured"
ToastFailed == "Failed to auto-fix the error"
ToastFixed == "Error fixed!"

\* ------------------------------------------------------------- state
VARIABLES
  now,                \* Date.now()
  lastErrorHash,      \* ErrorMonitor state
  fixedErrors,
  errorCooldown,
  lastSuccessTime,
  abortControllerRef, \* session whose controller the ref holds, 0 for null
  listener,           \* the values the subscribed listen callback closes over
  timers,             \* due times of the armed cooldown timers
  sessions,           \* the runs of handleSandboxError
  nSessions,          \* runs started so far
  isFixingError,      \* CodePreview state
  showReasoning,
  reasoningStage,
  stopSignal,
  files,              \* the project file set (the files prop)
  lastDoneAt,         \* time of the last successful 'done', -1 for none
  lastMergeAt,        \* time of the last merge, -1 for none
  acceptedAt,         \* fingerprint -> time it was last accepted, -1 for never
  handled,            \* fingerprints accepted and since neither cleared by a
                      \* successful build nor given up by their failed session
  stopAt,             \* where the server's run was at the first stop, "none" before
  skipped,            \* faults the gate has turned away
  server,             \* the run of POST /fix-error followed step by step
  pipe,               \* chunks that run has written and the client not yet read
  verifier            \* a call of verifyFixes: its argument and what it returned

monitorVars == <<lastErrorHash, fixedErrors, errorCooldown, lastSuccessTime>>
previewVars == <<isFixingError, showReasoning, reasoningStage, stopSignal>>
historyVars == <<lastDoneAt, lastMergeAt, acceptedAt, handled, stopAt, skipped>>
serverVars == <<server, pipe>>
vars == <<now, lastErrorHash, fixedErrors, errorCooldown, lastSuccessTime,
          abortControllerRef, listener, timers, sessions, nSessions,
          isFixingError, showReasoning, reasoningStage, stopSignal, files,
          lastDoneAt, lastMergeAt, acceptedAt, handled, stopAt, skipped, server,
          pipe, verifier>>

SessionIds == 1..MaxSessions

\* A run that has returned keeps no locals: only what it was for and how it ended
Returned(x, how, shown) ==
  [pc |-> "returned", errorHash |-> x.errorHash, files |-> <<>>, aborted |-> FALSE,
   finalResult |-> <<>>, sent |-> 0, outcome |-> how, stopRequested |-> FALSE,
   toast |-> shown]

IdleSession ==
  [pc |-> "idle", errorHash |-> EmptyHash, files |-> <<>>, aborted |-> FALSE,
   finalResult |-> <<>>, sent |-> 0, outcome |-> "none", stopRequested |-> FALSE,
   toast |-> "none"]

InFlight(s) == sessions[s].pc \in {"getApiSettings", "fetch", "read"}
InFlightCount == Cardinality({ s \in SessionIds : InFlight(s) })

\* What a listener subscribed in a render with these values closes over
Closure(leh, fe, cd, lst, fs) ==
  [lastErrorHash |-> leh, fixedErrors |-> fe, errorCooldown |-> cd,
   lastSuccessTime |-> lst, files |-> fs]

Init ==
  /\ now = StartTime
  /\ lastErrorHash = EmptyHash
  /\ fixedErrors = {}
  /\ errorCooldown = FALSE
  /\ lastSuccessTime = 0
  /\ abortControllerRef = 0
  /\ listener = Closure(EmptyHash, {}, FALSE, 0, InitialFiles)
  /\ timers = {}
  /\ sessions = [s \in SessionIds |-> IdleSession]
  /\ nSessions = 0
  /\ isFixingError = FALSE
  /\ showReasoning = FALSE
  /\ reasoningStage = "none"
  /\ stopSignal = [stopped |-> FALSE]
  /\ files = InitialFiles
  /\ lastDoneAt = -1
  /\ lastMergeAt = -1
  /\ acceptedAt = [h \in Hashes |-> -1]
  /\ handled = {}
  /\ stopAt = "none"
  /\ skipped = 0
  /\ server = ServerOff
  /\ pipe = <<>>
  /\ verifier = VerifierIdle


\* ------------------------------------------------- ErrorMonitor effects
\* The listener effect, deps [listen, lastErrorHash]: after a commit that
\* changed lastErrorHash the callback is subscribed anew and closes over the
\* values of that render; otherwise the old callback stays subscribed.
ListenerEffect ==
  listener' = IF lastErrorHash' # lastErrorHash
              THEN Closure(lastErrorHash', fixedErrors', errorCooldown',
                           lastSuccessTime', files')
              ELSE listener

\* The same effect re-running because useSandpack() handed out a new
\* `listen` function: the callback is subscribed anew with the current values.
ListenChanged ==
  /\ listener # Closure(lastErrorHash, fixedErrors, errorCooldown, lastSuccessTime, files)
  /\ listener' = Closure(lastErrorHash, fixedErrors, errorCooldown, lastSuccessTime, files)
  /\ UNCHANGED <<now, monitorVars, abortControllerRef, timers, sessions, nSessions,
                 previewVars, files, historyVars, serverVars, verifier>>

\* ------------------------------------------------------ admission gate
\* Admit without the fixedErrors check
AdmitWithoutFixedErrors(errorHash, t) ==
  /\ ~listener.errorCooldown
  /\ errorHash # listener.lastErrorHash
  /\ ~(t - listener.lastSuccessTime < SuccessGraceMs)

\* The checks of the listen callback, on the values the callback closes over:
\* cooldown, already fixed, same as the last hash, grace after a success.
Admit(errorHash, t) ==
  /\ ~listener.errorCooldown
  /\ errorHash \notin listener.fixedErrors
  /\ errorHash # listener.lastErrorHash
  /\ ~(t - listener.lastSuccessTime < SuccessGraceMs)

\* Skip with setLastErrorHash(errorHash) moved before the checks
SkipAfterSetLastErrorHash(errorHash) ==
  /\ skipped < MaxSkipped
  /\ skipped' = skipped + 1
  /\ lastErrorHash' = errorHash
  /\ UNCHANGED <<now, fixedErrors, errorCooldown, lastSuccessTime, abortControllerRef,
                 timers, sessions, nSessions, previewVars, files, lastDoneAt,
                 lastMergeAt, acceptedAt, handled, stopAt, serverVars, verifier>>
  /\ ListenerEffect

\* The gate turns a fault away (cooldown, already fixed, same as the last
\* hash, grace after a success): the callback returns, nothing is set
Skip(errorHash) ==
  /\ skipped < MaxSkipped
  /\ skipped' = skipped + 1
  /\ UNCHANGED <<now, monitorVars, abortControllerRef, listener, timers, sessions,
                 nSessions, previewVars, files, lastDoneAt, lastMergeAt, acceptedAt,
                 handled, stopAt, serverVars, verifier>>

\* The synchronous start of handleSandboxError(error, errorHash): a new
\* controller in the ref, onFixingStart(), then the await of getApiSettings().
\* `files` are the ones of the render the calling listener was created in.
StartSession(s, errorHash) ==
  /\ sessions' = [sessions EXCEPT ![s] =
        [IdleSession EXCEPT !.pc = "getApiSettings", !.errorHash = errorHash,
                            !.files = listener.files, !.toast = ToastInfo]]
  /\ nSessions' = s
  /\ abortControllerRef' = s
  /\ isFixingError' = TRUE

\* The callback passed to listen(), for one sandbox message
Listen(message) ==
  LET d == DecodeMessage(message)
      errorHash == ErrorHashOf(d.errorType, d.errorMessage)
  IN
  IF message.type = "done" /\ message.compilatonError # TRUE
  THEN \* successful compilation: reset error tracking
       /\ lastSuccessTime' = now
       /\ fixedErrors' = {}
       /\ errorCooldown' = FALSE
       /\ lastDoneAt' = now
       /\ handled' = {}
       /\ UNCHANGED <<now, lastErrorHash, abortControllerRef, timers, sessions,
                      nSessions, previewVars, files, lastMergeAt, acceptedAt,
                      stopAt, skipped, serverVars, verifier>>
       /\ ListenerEffect
  ELSE IF d.errorMessage = <<>>
  THEN UNCHANGED vars
  ELSE IF Admit(errorHash, now)
  THEN /\ nSessions < MaxSessions
       /\ InFlightCount < MaxInFlight
       /\ lastErrorHash' = errorHash
       /\ fixedErrors' = fixedErrors \cup {errorHash}
       /\ errorCooldown' = TRUE
       /\ StartSession(nSessions + 1, errorHash)
       /\ timers' = timers \cup {now + CooldownMs}
       /\ acceptedAt' = [acceptedAt EXCEPT ![errorHash] = now]
       /\ handled' = handled \cup {errorHash}
       /\ UNCHANGED <<now, lastSuccessTime, showReasoning, reasoningStage,
                      stopSignal, files, lastDoneAt, lastMergeAt, stopAt, skipped,
                      serverVars, verifier>>
       /\ ListenerEffect
  ELSE Skip(errorHash)

\* The callback of setTimeout(..., 5000)
CooldownTimer ==
  \E due \in timers :
    /\ due <= now
    /\ timers' = timers \ {due}
    /\ errorCooldown' = FALSE
    /\ UNCHANGED <<now, lastErrorHash, fixedErrors, lastSuccessTime,
                   abortControllerRef, sessions, nSessions, previewVars, files,
                   historyVars, serverVars, verifier>>
    /\ ListenerEffect

\* Time passes; a timer that is due runs before the clock moves on
Advance ==
  /\ now + Tick <= EndTime
  /\ \A due \in timers : due > now
  /\ now' = now + Tick
  /\ UNCHANGED <<monitorVars, abortControllerRef, listener, timers, sessions,
                 nSessions, previewVars, files, historyVars, serverVars, verifier>>


\* ------------------------------------------------- the server's run
\* The route receives the request of a session and runs fixWithReasoning up
\* to the first oracle call
ServerStart ==
  /\ server.pc = "idle"
  /\ \E s \in SessionIds : sessions[s].pc = "fetch"
  /\ server' = StartAnalysis(server)
  /\ pipe' = Append(pipe, Written(server, server'))
  /\ UNCHANGED <<now, monitorVars, abortControllerRef, listener, timers, sessions,
                 nSessions, previewVars, files, historyVars, verifier>>

\* The first oracle call returns
Oracle1Returns ==
  /\ server.pc = "oracle1"
  /\ \E response \in AnalysisResponses, scan \in ScanOutcomes :
       server' = AfterOracle1(server, response, scan)
  /\ pipe' = Append(pipe, Written(server, server'))
  /\ UNCHANGED <<now, monitorVars, abortControllerRef, listener, timers, sessions,
                 nSessions, previewVars, files, historyVars, verifier>>

\* The second oracle call returns
Oracle2Returns ==
  /\ server.pc = "oracle2"
  /\ \E response \in ImplementationResponses(RepairPatches) :
       server' = AfterOracle2(server, response)
  /\ pipe' = Append(pipe, Written(server, server'))
  /\ UNCHANGED <<now, monitorVars, abortControllerRef, listener, timers, sessions,
                 nSessions, previewVars, files, historyVars, verifier>>

\* ------------------------------------------------- handleSandboxError
\* The file-set owner's onFilesUpdated: the merged files become the project
\* file set.
onFilesUpdated(fixedFiles) == fixedFiles

\* The function returns without merging and without reaching the catch block
Return(s, how) ==
  /\ sessions' = [sessions EXCEPT ![s] =
        Returned(sessions[s], how,
                 IF how = "no_settings" THEN ToastNoSettings ELSE sessions[s].toast)]
  /\ UNCHANGED <<now, monitorVars, abortControllerRef, listener, timers,
                 nSessions, files, historyVars>>

\* The catch block: the hash is removed from fixedErrors and lastErrorHash reset
Catch(s) ==
  /\ fixedErrors' = fixedErrors \ {sessions[s].errorHash}
  /\ lastErrorHash' = EmptyHash
  /\ sessions' = [sessions EXCEPT ![s] =
        Returned(sessions[s], IF sessions[s].aborted THEN "aborted" ELSE "failed",
                 ToastFailed)]
  /\ handled' = handled \ {sessions[s].errorHash}
  /\ UNCHANGED <<now, errorCooldown, lastSuccessTime, abortControllerRef,
                 timers, nSessions, files, lastDoneAt, lastMergeAt, acceptedAt,
                 stopAt, skipped>>
  /\ ListenerEffect

\* MayApply without the cancel check
MayApplyIgnoringStop(stopped, finalResult) ==
  /\ finalResult # NoResult
  /\ finalResult.success
  /\ finalResult.fixedFiles # NoFiles

\* The guard of the merge, after the stream loop
MayApply(stopped, finalResult) ==
  /\ ~stopped
  /\ finalResult # NoResult
  /\ finalResult.success
  /\ finalResult.fixedFiles # NoFiles

\* The final result applied: onFilesFixed(updatedFiles), then the resets
Merge(s, finalResult) ==
  /\ files' = onFilesUpdated(UpdatedFiles(sessions[s].files, finalResult.fixedFiles[1]))
  /\ isFixingError' = FALSE
  /\ showReasoning' = FALSE
  /\ lastErrorHash' = EmptyHash
  /\ lastSuccessTime' = now
  /\ lastMergeAt' = now
  /\ sessions' = [sessions EXCEPT ![s] = Returned(sessions[s], "merged", ToastFixed)]
  /\ UNCHANGED <<now, fixedErrors, errorCooldown, abortControllerRef, timers,
                 nSessions, stopSignal, lastDoneAt, acceptedAt, handled, stopAt,
                 skipped>>
  /\ ListenerEffect

\* After the stream loop: merge, or return silently.  `stage` and `show` are
\* what the records handled in this step made of the reasoning panel.
AfterLoop(s, finalResult, how, stage, show) ==
  IF MayApply(stopSignal.stopped, finalResult)
  THEN Merge(s, finalResult) /\ reasoningStage' = stage
  ELSE /\ Return(s, how)
       /\ reasoningStage' = stage
       /\ showReasoning' = show
       /\ UNCHANGED <<isFixingError, stopSignal>>

\* await getApiSettings() resolves: null ends the run, settings start the fetch
GetApiSettings(s) ==
  /\ sessions[s].pc = "getApiSettings"
  /\ UNCHANGED <<serverVars, verifier>>
  /\ \E apiSettings \in {"null", "settings"} :
       IF apiSettings = "null"
       THEN Return(s, "no_settings") /\ UNCHANGED previewVars
       ELSE /\ sessions' = [sessions EXCEPT ![s].pc = "fetch"]
            /\ UNCHANGED <<now, monitorVars, abortControllerRef, listener, timers,
                           nSessions, previewVars, files, historyVars>>

\* await fetch(...) settles.  An aborted signal rejects it; otherwise it is
\* rejected by the network, answered with a non-2xx status, or answered with
\* the event stream, and then the loop is entered: its cancel check first.
\* The status is 200 once the route has written its first record.
Fetch(s) ==
  /\ sessions[s].pc = "fetch"
  /\ UNCHANGED <<serverVars, verifier>>
  /\ \E response \in {"reject", "not_ok", "ok"} :
       /\ sessions[s].aborted => response = "reject"
       /\ response = "ok" => server.pc # "idle"
       /\ response = "not_ok" => server.pc \in {"off", "idle"}
       /\ IF response \in {"reject", "not_ok"}
          THEN Catch(s) /\ UNCHANGED previewVars
          ELSE IF stopSignal.stopped
          THEN AfterLoop(s, NoResult, "cancelled", reasoningStage, showReasoning)
          ELSE /\ sessions' = [sessions EXCEPT ![s].pc = "read"]
               /\ UNCHANGED <<now, monitorVars, abortControllerRef, listener,
                              timers, nSessions, previewVars, files, historyVars>>

\* ------------------------------------------------- the SSE read loop
\* The records of a chunk the for loop handles: those before its first
\* 'error' record, on which the loop throws
Handled(chunk) ==
  LET errs == { i \in 1..Len(chunk) : chunk[i].type = "error" }
  IN IF errs = {} THEN chunk
     ELSE SubSeq(chunk, 1, (CHOOSE i \in errs : \A k \in errs : i <= k) - 1)
Throws(chunk) == \E i \in 1..Len(chunk) : chunk[i].type = "error"
LastOr(seq, default) == IF seq = <<>> THEN default ELSE seq[Len(seq)]

\* LeavesLoop leaving the loop as soon as a result was received
LeavesLoopOnResult(stopped, done, finalResult) ==
  stopped \/ done \/ finalResult # NoResult

\* The loop is left when the cancel check at its top finds the stop signal
\* set, or when the read before reported the end of the stream; that a
\* result was received does not end it
LeavesLoop(stopped, done, finalResult) == stopped \/ done

\* The chunks reader.read() may deliver next
Incoming(s) ==
  IF server.pc = "off" THEN NextChunks(sessions[s].sent)
  ELSE IF pipe # <<>> THEN {Head(pipe)} ELSE {}

\* await reader.read() settles: rejected (abort or network), done, or one
\* chunk, whose records are all handled before the loop's cancel check runs
\* again.
Read(s) ==
  /\ sessions[s].pc = "read"
  /\ UNCHANGED <<server, verifier>>
  /\ \/ Catch(s) /\ UNCHANGED <<previewVars, pipe>>
     \/ /\ ~sessions[s].aborted
        /\ LeavesLoop(stopSignal.stopped, TRUE, sessions[s].finalResult)
        /\ AfterLoop(s, sessions[s].finalResult, "no_result", reasoningStage, showReasoning)
        /\ UNCHANGED pipe
     \/ /\ ~sessions[s].aborted
        /\ \E chunk \in Incoming(s) :
             LET progress == SelectSeq(Handled(chunk), LAMBDA d : d.type # "complete")
                 complete == SelectSeq(Handled(chunk), LAMBDA d : d.type = "complete")
                 stage == LastOr(progress, [stage |-> reasoningStage]).stage
                 show == showReasoning \/ progress # <<>>
                 finalResult == LastOr(complete, sessions[s].finalResult)
             IN
             /\ pipe' = IF server.pc = "off" THEN pipe ELSE Tail(pipe)
             /\ IF Throws(chunk)
                THEN /\ Catch(s)
                     /\ reasoningStage' = stage
                     /\ showReasoning' = show
                     /\ UNCHANGED <<isFixingError, stopSignal>>
                ELSE IF LeavesLoop(stopSignal.stopped, FALSE, finalResult)
                THEN AfterLoop(s, finalResult, "cancelled", stage, show)
                ELSE /\ sessions' = [sessions EXCEPT ![s].sent = @ + 1,
                                                     ![s].finalResult = finalResult]
                     /\ reasoningStage' = stage
                     /\ showReasoning' = show
                     /\ UNCHANGED <<now, monitorVars, abortControllerRef, listener,
                                    timers, nSessions, isFixingError, stopSignal,
                                    files, historyVars>>

\* ----------------------------------------------------------- CodePreview
\* The Stop button of the reasoning panel is shown while the panel is
\* visible and the stage it shows is neither 'complete' nor 'error'.
StopButtonShown ==
  showReasoning /\ reasoningStage \notin {"complete", "error"}

\* handleStopFixing, and the stop-signal effect of the render it causes: when
\* stopSignal.stopped changed, the controller in the ref is aborted and the
\* ref cleared.
HandleStopFixing ==
  /\ StopButtonShown
  /\ stopSignal' = [stopped |-> TRUE]
  /\ showReasoning' = FALSE
  /\ isFixingError' = FALSE
  /\ LET abort == ~stopSignal.stopped /\ abortControllerRef # 0 IN
     /\ abortControllerRef' = IF abort THEN 0 ELSE abortControllerRef
     /\ sessions' = [s \in SessionIds |->
          [sessions[s] EXCEPT
             !.aborted = @ \/ (abort /\ s = abortControllerRef /\ InFlight(s)),
             !.stopRequested = @ \/ InFlight(s)]]
  /\ stopAt' = IF stopSignal.stopped THEN stopAt ELSE server.pc
  /\ UNCHANGED <<now, monitorVars, listener, timers, nSessions, reasoningStage,
                 files, lastDoneAt, lastMergeAt, acceptedAt, handled, skipped, serverVars,
                 verifier>>

\* onClose of the reasoning panel
CloseReasoning ==
  /\ showReasoning
  /\ showReasoning' = FALSE
  /\ UNCHANGED <<now, monitorVars, abortControllerRef, listener, timers, sessions,
                 nSessions, isFixingError, reasoningStage, stopSignal, files,
                 historyVars, serverVars, verifier>>

\* ----------------------------------------------------------- the system
Next ==
  \/ \E message \in Messages : Listen(message)
  \/ ListenChanged
  \/ CooldownTimer
  \/ Advance
  \/ \E s \in SessionIds : GetApiSettings(s)
  \/ \E s \in SessionIds : Fetch(s)
  \/ \E s \in SessionIds : Read(s)
  \/ HandleStopFixing
  \/ CloseReasoning

Spec == Init /\ [][Next]_vars

\* ------------------------------------------- one repair, step by step
\* One repair session whose server run is followed step by step, while the
\* owner of the file set may change the files.

\* The owner hands CodePreview a changed file set (a chat-driven edit)
FilesChanged ==
  /\ files = InitialFiles
  /\ files' = [InitialFiles EXCEPT ![2].content = "e1"]
  /\ UNCHANGED <<now, monitorVars, abortControllerRef, listener, timers, sessions,
                 nSessions, previewVars, historyVars, serverVars, verifier>>

RepairInit ==
  /\ now = StartTime
  /\ lastErrorHash = EmptyHash
  /\ fixedErrors = {}
  /\ errorCooldown = FALSE
  /\ lastSuccessTime = 0
  /\ abortControllerRef = 0
  /\ listener = Closure(EmptyHash, {}, FALSE, 0, InitialFiles)
  /\ timers = {}
  /\ sessions = [s \in SessionIds |-> IdleSession]
  /\ nSessions = 0
  /\ isFixingError = FALSE
  /\ showReasoning = FALSE
  /\ reasoningStage = "none"
  /\ stopSignal = [stopped |-> FALSE]
  /\ files = InitialFiles
  /\ lastDoneAt = -1
  /\ lastMergeAt = -1
  /\ acceptedAt = [h \in Hashes |-> -1]
  /\ handled = {}
  /\ stopAt = "none"
  /\ skipped = 0
  /\ server = ServerIdle
  /\ pipe = <<>>
  /\ verifier = VerifierIdle

RepairNext ==
  \/ \E message \in Messages : Listen(message) /\ nSessions' <= RepairSessions
  \/ ListenChanged
  \/ FilesChanged
  \/ \E s \in SessionIds : GetApiSettings(s)
  \/ \E s \in SessionIds : Fetch(s)
  \/ \E s \in SessionIds : Read(s)
  \/ ServerStart
  \/ Oracle1Returns
  \/ Oracle2Returns
  \/ HandleStopFixing
  \/ CloseReasoning

RepairSpec == RepairInit /\ [][RepairNext]_vars

\* The oracle's streams end or fail: a pending oracle call returns
RepairFairSpec ==
  RepairSpec /\ WF_vars(Oracle1Returns) /\ WF_vars(Oracle2Returns)


\* ------------------------------------------------ verifyFixes on its own
\* STEP 4 of fixWithReasoning: verifyFixes is called on the parsed patch and
\* returns its verification; the patch object is the one the result carries.
VerifyFixes ==
  /\ verifier.pc = "called"
  /\ verifier' = [verifier EXCEPT !.pc = "returned",
                                  !.verification = verifyFixes(verifier.fixedFiles)]
  /\ UNCHANGED <<now, monitorVars, abortControllerRef, listener, timers, sessions,
                 nSessions, previewVars, files, historyVars, serverVars>>

VerifyInit ==
  /\ now = StartTime
  /\ lastErrorHash = EmptyHash
  /\ fixedErrors = {}
  /\ errorCooldown = FALSE
  /\ lastSuccessTime = 0
  /\ abortControllerRef = 0
  /\ listener = Closure(EmptyHash, {}, FALSE, 0, InitialFiles)
  /\ timers = {}
  /\ sessions = [s \in SessionIds |-> IdleSession]
  /\ nSessions = 0
  /\ isFixingError = FALSE
  /\ showReasoning = FALSE
  /\ reasoningStage = "none"
  /\ stopSignal = [stopped |-> FALSE]
  /\ files = InitialFiles
  /\ lastDoneAt = -1
  /\ lastMergeAt = -1
  /\ acceptedAt = [h \in Hashes |-> -1]
  /\ handled = {}
  /\ stopAt = "none"
  /\ skipped = 0
  /\ server = ServerOff
  /\ pipe = <<>>
  /\ verifier \in { [VerifierIdle EXCEPT !.pc = "called", !.fixedFiles = patch] :
                      patch \in VerifyPatches }

VerifyNext == VerifyFixes

VerifySpec == VerifyInit /\ [][VerifyNext]_vars


\* ------------------------------------------------------------- claims
\* Outcome of the latest session started for a fingerprint
LatestOutcome(h) ==
  LET S == { s \in SessionIds : sessions[s].pc # "idle" /\ sessions[s].errorHash = h }
  IN IF S = {} THEN "none"
     ELSE sessions[CHOOSE s \in S : \A r \in S : r <= s].outcome

MaxOf(S) == IF S = {} THEN -1 ELSE CHOOSE x \in S : \A y \in S : y <= x

\* A step in which the gate accepts a fault and starts a session
Accepts == nSessions' = nSessions + 1
AcceptsHash(h) == Accepts /\ sessions'[nSessions'].errorHash = h
LastAccept == MaxOf({ acceptedAt[h] : h \in Hashes })

\* C1: at most one repair session is in flight at any time.
C1_AtMostOneSession == InFlightCount <= 1

\* C2: a session during which the user triggered stop never calls
\* onFilesFixed and leaves the project file set as it was, also when its
\* 'complete' record is read after the stop.
C2_StopPreventsMerge ==
  [][\A s \in SessionIds :
        (sessions[s].stopRequested /\ sessions'[s].pc = "returned")
          => (sessions'[s].outcome # "merged" /\ files' = files)]_vars

\* C2 witness: stop was triggered while the server was generating the fix and
\* the session's read was not aborted, so its last chunk is still read.
C2_Witness ==
  \E s \in SessionIds :
    /\ sessions[s].pc = "read" /\ sessions[s].sent = 2
    /\ sessions[s].stopRequested /\ ~sessions[s].aborted

\* C3: a fault whose fingerprint was accepted less than 5000 ms ago, with no
\* successful build since, starts no session.
C3_DuplicateSuppressed ==
  [][\A h \in Hashes :
        AcceptsHash(h) =>
          ~(/\ acceptedAt[h] >= 0
            /\ now < acceptedAt[h] + CooldownMs
            /\ lastDoneAt < acceptedAt[h])]_vars

\* C4: no fault at all is accepted less than 5000 ms after an accept, unless
\* a successful build came after that accept.
C4_CooldownWindow ==
  [][Accepts =>
        ~(/\ LastAccept >= 0
          /\ now < LastAccept + CooldownMs
          /\ lastDoneAt < LastAccept)]_vars

\* C5: no fault is accepted less than 2000 ms after a successful build.
C5_GraceWindow ==
  [][Accepts => ~(lastDoneAt >= 0 /\ now - lastDoneAt < SuccessGraceMs)]_vars

\* C6: after a successful build, with nothing accepted since, fixedErrors is
\* empty and the cooldown cleared, and once the grace window is over and no
\* session runs, a fault seen before that build is accepted.
C6_PostSuccessReset ==
  \A h \in Hashes :
    (lastDoneAt >= 0 /\ LastAccept < lastDoneAt) =>
      /\ fixedErrors = {}
      /\ ~errorCooldown
      /\ (/\ acceptedAt[h] >= 0
          /\ now - lastDoneAt >= SuccessGraceMs
          /\ now - lastSuccessTime >= SuccessGraceMs
          /\ InFlightCount = 0) => Admit(h, now)

\* C7: after the session of a fingerprint failed, the fingerprint is out of
\* fixedErrors, and once the cooldown of that accept has expired (its timer
\* has run, nothing was accepted since, no grace window is open) the same
\* fault is accepted.
C7_FailureEviction ==
  \A h \in Hashes :
    (/\ LatestOutcome(h) = "failed"
     /\ \A g \in Hashes \ {h} : acceptedAt[g] < acceptedAt[h]) =>
      /\ h \notin fixedErrors
      /\ (/\ now >= acceptedAt[h] + CooldownMs
          /\ timers = {}
          /\ now - lastSuccessTime >= SuccessGraceMs
          /\ InFlightCount = 0) => Admit(h, now)

\* C8: a session that ends cancelled, by the aborted request or by the
\* loop's cancel check, after the user triggered stop during it, leaves
\* fixedErrors without its fingerprint.
C8_AbortEviction ==
  [][\A s \in SessionIds :
        (/\ sessions[s].stopRequested
         /\ sessions'[s].pc = "returned"
         /\ sessions'[s].outcome \in {"aborted", "cancelled"})
          => sessions[s].errorHash \notin fixedErrors']_vars

C10_NoOscillation ==
  [][Accepts => ~(lastMergeAt >= 0 /\ now - lastMergeAt < SuccessGraceMs)]_vars

\* A step in which session s merges its result (calls onFilesFixed)
Merges(s) == sessions[s].pc = "read" /\ sessions'[s].outcome = "merged"

\* The patch a merging session applies
MergedPatch(s) == sessions[s].finalResult.fixedFiles[1]

\* Two paths that name the same file, however many '/' lead them
SameFile(p, q) == p.name = q.name

\* C11: a merge leaves every file the patch does not name with the content
\* it had in the project file set just before the merge, also when the file
\* set was changed after the session started.
C11_PartialMerge ==
  [][\A s \in SessionIds :
        Merges(s) =>
          \A i \in 1..Len(files) :
            (\A k \in 1..Len(MergedPatch(s)) :
                ~SameFile(MergedPatch(s)[k].path, files[i].path))
              => \E j \in 1..Len(files') : files'[j] = files[i]]_vars

\* C12: after a merge every entry of the patch is in the file set: a file
\* of that path exists and every file of that path has the patched content,
\* whatever the content and however the '/' is written.
C12_EveryEntryApplied ==
  [][\A s \in SessionIds :
        Merges(s) =>
          \A k \in 1..Len(MergedPatch(s)) :
            /\ \E j \in 1..Len(files') :
                 SameFile(files'[j].path, MergedPatch(s)[k].path)
            /\ \A j \in 1..Len(files') :
                 SameFile(files'[j].path, MergedPatch(s)[k].path)
                   => files'[j].content = MergedPatch(s)[k].content]_vars

\* C13: the file set is written at most once per session, and only by a
\* session that has handled a 'complete' record with success true and then
\* seen the stream end; no progress record, 'error' record or stream cut
\* short makes a session merge.
C13_WrittenOnceAfterComplete ==
  [][/\ files' # files => (FilesChanged \/ \E s \in SessionIds : Merges(s))
     /\ \A s \in SessionIds :
          /\ sessions[s].outcome = "merged" => sessions'[s] = sessions[s]
          /\ Merges(s) =>
               /\ IF sessions[s].finalResult = NoResult THEN FALSE
                  ELSE /\ sessions[s].finalResult.type = "complete"
                       /\ sessions[s].finalResult.success
               /\ server.pc = "ended" /\ server.result.success
               /\ pipe = <<>>]_vars

\* C13 witness: a session merged a patch that changed the file set.
C13_Witness ==
  /\ \E s \in SessionIds : sessions[s].outcome = "merged"
  /\ server.pc = "ended"
  /\ \E i \in 1..Len(files) : files[i].content = "v1"

\* The progress events of a log
Events(log) == SelectSeq(log, LAMBDA e : e.kind = "event")

\* The stages in the order and with the percentages the claim states
StageOrder ==
  << Event("analyzing", 10), Event("reasoning_complete", 30),
     Event("codebase_analysis", 40), Event("generating_fix", 60),
     Event("verifying", 80), Event("complete", 100) >>

\* The stage event that announces a piece of work
Announces(what) ==
  IF what = "oracle1" THEN StageOrder[1]
  ELSE IF what = "scan" THEN StageOrder[3]
  ELSE IF what = "oracle2" THEN StageOrder[4]
  ELSE StageOrder[5]

Terminals(log) ==
  { i \in 1..Len(Events(log)) : Events(log)[i].name \in {"complete", "error"} }

\* C15: a run whose oracle calls return ends; an ended run has emitted
\* exactly one terminal event, as the last thing it did, and its result has
\* success true exactly when that event is 'complete'; a run that has not
\* ended has emitted none, and an ended run emits nothing more.
C15_OneTerminalRecord ==
  /\ [](IF server.pc = "ended"
        THEN /\ Terminals(server.log) = {Len(Events(server.log))}
             /\ server.log[Len(server.log)].kind = "event"
             /\ server.result.success
                  <=> (server.log[Len(server.log)].name = "complete")
        ELSE Terminals(server.log) = {})
  /\ [][server.pc = "ended" => (server' = server)]_vars
  /\ (server.pc \in {"oracle1", "oracle2"} ~> server.pc = "ended")

\* C15 witness: a run ended failed by the exception verification threw.
C15_Witness ==
  /\ server.pc = "ended"
  /\ "verify" \in server.raised
  /\ ~server.result.success

\* The stage names a log holds, and the work it holds
StagesOf(log) == { Events(log)[i].name : i \in 1..Len(Events(log)) }
WorkOf(log) == { log[i].name : i \in { k \in 1..Len(log) : log[k].kind = "work" } }

\* C16: when the first oracle call fails or its response does not parse,
\* the run ends failed at once: no reasoning_complete, codebase_analysis or
\* generating_fix event, and no second oracle call.
C16_AnalysisFailureEnds ==
  server.fallback =>
    /\ server.pc = "ended"
    /\ ~server.result.success
    /\ StagesOf(server.log) \cap
         {"reasoning_complete", "codebase_analysis", "generating_fix"} = {}
    /\ "oracle2" \notin WorkOf(server.log)

\* C17: when the response of the second oracle call has neither a JSON
\* object with a files map nor a file block, the run ends failed, without
\* a 'complete' event, and the client merges nothing and reports no fix.
C17_MalformedResponseFails ==
  server.malformed =>
    /\ ~server.result.success
    /\ "complete" \notin StagesOf(server.log)
    /\ \A s \in SessionIds :
         sessions[s].outcome # "merged" /\ sessions[s].toast # ToastFixed

\* C18: a run in which an exception was raised (oracle stream, parse of the
\* analysis, codebase scan, verification) ends with success false, no
\* oracle call is made twice, and the client merges nothing.  The JSON
\* exception parseFixedFiles answers with its file-block fallback is not
\* counted.
C18_ExceptionsBecomeFailure ==
  /\ (server.pc = "ended" /\ server.raised \ {"parse2"} # {}) =>
       /\ ~server.result.success
       /\ \A s \in SessionIds : sessions[s].outcome # "merged"
  /\ \A what \in WorkOf(server.log) :
       Cardinality({ i \in 1..Len(server.log) : server.log[i] = Work(what) }) = 1

\* C19: once the user has stopped the session while an oracle call was in
\* flight on the server, the server's run does nothing more: no further
\* stage event and no further oracle call.
C19_CancellationReachesOracle ==
  [][(stopAt \in {"oracle1", "oracle2"}) => (server' = server)]_vars

\* C20: a session that ends after the user stopped it has not shown the
\* failure notification.
C20_CancelIsNoFailure ==
  [][\A s \in SessionIds :
        (sessions[s].stopRequested /\ sessions'[s].pc = "returned")
          => sessions'[s].toast # ToastFailed]_vars

\* C21: whenever a repair session is in flight that the user has not
\* stopped, isFixingError is true (auto-reload off, recompile delay 2000 ms),
\* also after an earlier session that ran beside it has finished.
C21_FixingWhileInFlight ==
  (\E s \in SessionIds : InFlight(s) /\ ~sessions[s].stopRequested) => isFixingError

\* The token before position i, whitespace skipped
Before(content, i) ==
  IF At(content, i - 1) = "ws" THEN At(content, i - 2) ELSE At(content, i - 1)

\* The content has a function (declared, anonymous or arrow) whose body is
\* empty: a '{' that follows a parameter list or '=>' and is closed at once
HasEmptyBody(content) ==
  \E i \in 1..Len(content) :
    /\ content[i] = "{"
    /\ Before(content, i) \in {")", "=>"}
    /\ At(content, SkipWs(content, i + 1)) = "}"

HasMarker(content) ==
  \E i \in 1..Len(content) : content[i] \in {"// TODO", "// FIXME"}

\* C22: verifyFixes reports noEmptyFunctions true exactly when no file of
\* the patch has a function with an empty body and noTODOComments true
\* exactly when no file has a '// TODO' or '// FIXME' marker, adds for every
\* file that fails a check a warning naming it, and leaves the patch as it was.
C22_VerifyFixes ==
  /\ [](verifier.pc = "returned" =>
          LET patch == verifier.fixedFiles
              v == verifier.verification
              Warned(p, text) ==
                \E k \in 1..Len(v.warnings) : v.warnings[k] = Warning(p, text)
          IN /\ v.checks.noEmptyFunctions
                  <=> \A i \in 1..Len(patch) : ~HasEmptyBody(patch[i].content)
             /\ v.checks.noTODOComments
                  <=> \A i \in 1..Len(patch) : ~HasMarker(patch[i].content)
             /\ \A i \in 1..Len(patch) :
                  /\ HasEmptyBody(patch[i].content)
                       => Warned(patch[i].path, "Contains empty function")
                  /\ HasMarker(patch[i].content)
                       => Warned(patch[i].path, "Contains TODO/FIXME comments"))
  /\ [][verifier'.fixedFiles = verifier.fixedFiles]_vars

\* The gate's checks on the current values of the monitor's state
AdmitOnCurrentState(errorHash, t) ==
  /\ ~errorCooldown
  /\ errorHash \notin fixedErrors
  /\ errorHash # lastErrorHash
  /\ ~(t - lastSuccessTime < SuccessGraceMs)

\* C23: the decision the listen callback takes for a fault is the decision
\* the current values of fixedErrors, errorCooldown, lastSuccessTime and
\* lastErrorHash give, and a step that accepts a fault passes the gate on
\* the current values.
C23_AtomicAdmission ==
  /\ [](\A h \in Hashes : Admit(h, now) <=> AdmitOnCurrentState(h, now))
  /\ [][\A h \in Hashes : AcceptsHash(h) => AdmitOnCurrentState(h, now)]_vars

\* C24: a session the user did not stop is not cancelled: it does not end
\* by the loop's cancel check, and when it has received a successful result
\* and its stream ends, it merges.
C24_CancellationScoped ==
  [][\A s \in SessionIds :
        (/\ InFlight(s)
         /\ ~sessions[s].stopRequested
         /\ sessions'[s].pc = "returned")
          => /\ sessions'[s].outcome # "cancelled"
             /\ (sessions'[s].outcome = "no_result"
                   => ~MayApplyIgnoringStop(FALSE, sessions[s].finalResult))]_vars

\* C25: when every session has ended (merged, failed or cancelled), 5000 ms
\* have passed since the last accept and its timer has run, and no grace
\* window is open, a fault whose fingerprint was never seen is accepted.
C25_NeverBlocked ==
  \A h \in Hashes :
    (/\ acceptedAt[h] = -1
     /\ nSessions > 0
     /\ \A s \in 1..nSessions :
          sessions[s].outcome \in {"merged", "failed", "aborted", "cancelled"}
     /\ now >= LastAccept + CooldownMs
     /\ timers = {}
     /\ now - lastDoneAt >= SuccessGraceMs
     /\ now - lastSuccessTime >= SuccessGraceMs) => Admit(h, now)

\* Why the callback turns a fault away, on the values it closes over
Suppresses(h, t) ==
  \/ listener.errorCooldown
  \/ h \in listener.fixedErrors
  \/ h = listener.lastErrorHash
  \/ t - listener.lastSuccessTime < SuccessGraceMs

\* C26: a step in which the gate turns a fault away starts no run of
\* handleSandboxError, does not call onFixingStart, shows no notification,
\* arms no timer and leaves fixedErrors, errorCooldown, lastErrorHash and
\* lastSuccessTime as they were.
C26_SuppressedIsSilent ==
  [][skipped' # skipped =>
       /\ \E h \in Hashes : Suppresses(h, now)
       /\ nSessions' = nSessions
       /\ sessions' = sessions
       /\ isFixingError' = isFixingError
       /\ timers' = timers
       /\ lastErrorHash' = lastErrorHash
       /\ fixedErrors' = fixedErrors
       /\ errorCooldown' = errorCooldown
       /\ lastSuccessTime' = lastSuccessTime]_vars

\* C26 witness: a fault was turned away while a session was running and
\* the callback was in cooldown for a fingerprint it had not seen.
C26_Witness ==
  /\ skipped > 0
  /\ InFlightCount = 1
  /\ listener.errorCooldown
  /\ \E h \in Hashes : h \notin listener.fixedErrors /\ h # listener.lastErrorHash

\* C27: no two entries of the project file set name the same file, a path
\* with and without its leading '/' being the same file.
C27_UniqueByPath ==
  \A i \in 1..Len(files) : \A j \in 1..Len(files) :
    i # j => ~SameFile(files[i].path, files[j].path)

\* C28: a step of a session the user has stopped delivers nothing to the
\* UI: it does not change the stage the reasoning panel shows, does not
\* show the panel again and does not set isFixingError again.
C28_NoProgressAfterStop ==
  [][\A s \in SessionIds :
        (sessions[s].stopRequested /\ sessions'[s] # sessions[s])
          => /\ reasoningStage' = reasoningStage
             /\ ~(showReasoning' /\ ~showReasoning)
             /\ ~(isFixingError' /\ ~isFixingError)]_vars

\* C29: a session that ends without merging leaves fixedErrors without its
\* fingerprint and lastErrorHash empty.
C29_EveryFailureEvicts ==
  [][\A s \in SessionIds :
        (/\ InFlight(s)
         /\ sessions'[s].pc = "returned"
         /\ sessions'[s].outcome # "merged")
          => /\ sessions[s].errorHash \notin fixedErrors'
             /\ lastErrorHash' = EmptyHash]_vars

\* C30: whenever no repair session is in flight, isFixingError is false.
C30_FlagClearedAtEnd == InFlightCount = 0 => ~isFixingError

====
